---- MODULE Spec2Model ----
(***************************************************************************)
(* The enrollClass and enrollTrial mutations of                            *)
(* src/server/graphql/mutation/enroll-class.ts as a state machine.  Every  *)
(* request is one process running one of the two handlers; every `await`   *)
(* of a handler is one step, so that concurrent requests interleave        *)
(* exactly where the handlers yield.  The store is a transactional database: a     *)
(* write made with `txOpts` is staged in the request's transaction and     *)
(* becomes visible to other requests at commit; a read made without        *)
(* `txOpts` sees committed rows only.                                      *)
(***************************************************************************)
EXTENDS Integers, FiniteSets, Sequences, TLC

(***************************************************************************)
(* Bounds                                                                  *)
(***************************************************************************)
\* number of requests in one behaviour (concurrent or in sequence), each of them
\* an enrollClass or an enrollTrial
NumReq == 2
\* usage cap K of the limited promotion
PromoCap == 1

Req == 1..NumReq

(***************************************************************************)
(* Fixture data: the rows the store holds before any request.              *)
(***************************************************************************)
NoUser == 0
ParentId == 1
RefererId == 2
OtherParentId == 5
FormerReferee == 7

\* StudentModel rows: student 1 is the caller's child, student 2 is not
Students == {[id |-> 1, parentId |-> ParentId], [id |-> 2, parentId |-> OtherParentId]}

\* CourseModel rows: course 1 is the trial course, course 2 a regular one
Courses ==
    [c \in {1, 2} |->
        IF c = 1
        THEN [id |-> 1, level |-> 0, isTrial |-> TRUE, isRegular |-> FALSE, price |-> 0]
        ELSE [id |-> 2, level |-> 1, isTrial |-> FALSE, isRegular |-> TRUE, price |-> 10000]]

\* ClassModel rows (include: [CourseModel]): class 1 of course 1, class 2 of course 2
Classes == {[id |-> 1, course |-> Courses[1]], [id |-> 2, course |-> Courses[2]]}

\* PromotionModel rows without the counter: promotion 1 is limited to PromoCap
\* uses and is meant for regular courses
NoPromo == 0
LimitedPromo == 1
UnknownPromo == 2
Promotions ==
    [p \in {LimitedPromo} |->
        [id |-> p, maxUses |-> PromoCap, regularOnly |-> TRUE,
         amountOff |-> 8000, bundleAmountOff |-> 4000, seriesAmountOff |-> 2000]]

\* cl-common ReferralCredits
ReferralCredits == [purchase |-> 2000]

CreditType == [Purchase |-> "Purchase", Referral |-> "Referral"]

\* the credit the caller's account holds before any request: 5000 cents
SeedCredits ==
    {[id |-> 1, userId |-> ParentId, cents |-> 5000, type |-> CreditType.Referral,
      attribution |-> FormerReferee, req |-> 0]}

(***************************************************************************)
(* Inputs of a request (MutationArgs.EnrollClass and req.userId)           *)
(***************************************************************************)
UserIdChoices == {NoUser, ParentId}
StudentIdChoices == {1, 2}
ClassIdsChoices == {<<9>>, <<1>>, <<2>>, <<1, 2>>}
CreditChoices == {0, 3000, 6000}
PromotionIdChoices == {NoPromo, LimitedPromo, UnknownPromo}

ArgsChoices ==
    [userId : UserIdChoices, studentId : StudentIdChoices, classIds : ClassIdsChoices,
     credit : CreditChoices, promotionId : PromotionIdChoices, wholeSeries : BOOLEAN]

NoArgs ==
    [userId |-> NoUser, studentId |-> 0, classIds |-> <<>>, credit |-> 0,
     promotionId |-> NoPromo, wholeSeries |-> FALSE]

\* inputs of an enrollTrial request (MutationArgs.EnrollTrial and req.userId)
ClassIdChoices == {9, 1, 2}

TrialArgsChoices ==
    [userId : UserIdChoices, studentId : StudentIdChoices, classId : ClassIdChoices]

(***************************************************************************)
(* Pure helpers                                                            *)
(***************************************************************************)
Min(a, b) == IF a < b THEN a ELSE b
Max(a, b) == IF a > b THEN a ELSE b

RECURSIVE SumCents(_)
SumCents(rows) ==
    IF rows = {} THEN 0
    ELSE LET r == CHOOSE x \in rows : TRUE
         IN  r.cents + SumCents(rows \ {r})

RECURSIVE SumPrice(_)
SumPrice(ks) ==
    IF ks = <<>> THEN 0 ELSE Head(ks).course.price + SumPrice(Tail(ks))

\* ClassModel.findAll({ where: { id: { [Op.in]: classIds } } }): the existing
\* classes among the requested ids, in id order
RECURSIVE FindAllClasses(_)
FindAllClasses(ids) ==
    IF ids = {} THEN <<>>
    ELSE LET i == CHOOSE x \in ids : \A y \in ids : x <= y
             found == {k \in Classes : k.id = i}
         IN  (IF found = {} THEN <<>> ELSE <<CHOOSE k \in found : TRUE>>)
             \o FindAllClasses(ids \ {i})

SeqToSet(s) == {s[i] : i \in 1..Len(s)}

\* lines 115-123: the first class of lowest course level
RECURSIVE LowestLevel(_, _)
LowestLevel(main, ks) ==
    IF ks = <<>> THEN main
    ELSE LowestLevel(IF Head(ks).course.level < main.course.level THEN Head(ks) ELSE main,
                     Tail(ks))

MainKlass(ks) == IF Len(ks) > 1 THEN LowestLevel(ks[1], ks) ELSE ks[1]

\* shared/pricing getTotalPriceInCents: the summed class prices; a bundle
\* (several classes, not the whole series) and a whole series each carry
\* their own reduction; never negative
getTotalPriceInCents(ks, opts) ==
    LET sum == SumPrice(ks)
    IN  IF opts.wholeSeries THEN Max(0, sum - 1000)
        ELSE IF Len(ks) > 1 THEN Max(0, sum - 500)
        ELSE sum

\* shared/pricing applyPromo: the promotion's rule by purchase shape, clamped at 0
applyPromo(price, promo, opts) ==
    LET off == IF opts.wholeSeries THEN promo.seriesAmountOff
               ELSE IF opts.isBundle THEN promo.bundleAmountOff
               ELSE promo.amountOff
    IN  [result |-> Max(0, price - off), used |-> Min(off, price)]

\* shared/pricing applyCredit: consumed = min(requested, price)
applyCredit(price, credit) ==
    [used |-> Min(credit, price), result |-> price - Min(credit, price)]

\* line 227: priceInCents / 100, the amount in major units with its hundredths
MajorUnits(cents) == [units |-> cents \div 100, hundredths |-> cents % 100]

(***************************************************************************)
(* State                                                                   *)
(***************************************************************************)
VARIABLES
    \* the store, committed rows only
    dbPromotions,      \* PromotionModel: id -> [counts]
    dbAccounts,        \* the caller's account row: [paid, refererId]
    dbCredits,         \* CreditModel rows
    dbEnrollments,     \* EnrollmentModel rows
    dbTransactions,    \* TransactionModel rows, each with the enrollments it is linked to
    \* the external services
    braintreeSales,    \* the charges the gateway captured
    saleCalls,         \* per request, how many times sale() was invoked
    eventBus,          \* the events emitEnrollClassEvent published
    \* one handler invocation per request
    handler,           \* history: the mutation the request invoked
    pc,                \* the await the request is at
    args,              \* its arguments and req.userId
    student,           \* the loaded student with its parent account
    klasses,           \* the loaded classes
    balanceInCents,    \* the balance read at line 109
    balanceAtTxStart,  \* history: the account's balance when line 138 opened tx
    priceInCents,
    appliedPromo,
    usedCredit,
    enrollments,       \* the rows bulkCreate returned
    tx,                \* the sequelize transaction of the request
    staged,            \* the writes made in tx and not yet committed
    err,               \* the error caught at line 249
    outcome            \* what the caller received

db == <<dbPromotions, dbAccounts, dbCredits, dbEnrollments, dbTransactions>>
ext == <<braintreeSales, saleCalls, eventBus>>
locals == <<args, student, klasses, balanceInCents, balanceAtTxStart, priceInCents,
            appliedPromo, usedCredit, enrollments>>
vars == <<db, ext, locals, handler, pc, tx, staged, err, outcome>>

NoStudent == [id |-> 0, parentId |-> NoUser, parent |-> [paid |-> FALSE, refererId |-> NoUser]]
NoCredit ==
    [id |-> 0, userId |-> NoUser, cents |-> 0, type |-> "", attribution |-> NoUser, req |-> 0]
NoErr == [kind |-> "none", step |-> "none"]
NoTx == [started |-> FALSE, finished |-> "", committed |-> FALSE]
NoStaged ==
    [counts |-> [p \in DOMAIN Promotions |-> 0], paid |-> FALSE, credits |-> {},
     enrollments |-> {}, transactions |-> {}]
Pending == [status |-> "pending", error |-> NoErr, value |-> {}]
NoHandler == "none"

\* the steps that write to the store inside the transaction
WriteSteps ==
    {"increment", "createCredit", "updatePaid", "createReferral", "bulkCreate",
     "createTransaction", "addEnrollments"}

\* the validation errors raised before the transaction opens
ValidationKinds == {"Unauthorized", "NotFound", "BadRequest"}

Init ==
    /\ dbPromotions = [p \in DOMAIN Promotions |-> [counts |-> 0]]
    /\ dbAccounts \in [paid : {FALSE}, refererId : {NoUser, RefererId}]
    /\ dbCredits = SeedCredits
    /\ dbEnrollments = {}
    /\ dbTransactions = {}
    /\ braintreeSales = {}
    /\ saleCalls = [p \in Req |-> 0]
    /\ eventBus = {}
    /\ handler = [p \in Req |-> NoHandler]
    /\ pc = [p \in Req |-> "idle"]
    /\ args = [p \in Req |-> NoArgs]
    /\ student = [p \in Req |-> NoStudent]
    /\ klasses = [p \in Req |-> <<>>]
    /\ balanceInCents = [p \in Req |-> 0]
    /\ balanceAtTxStart = [p \in Req |-> 0]
    /\ priceInCents = [p \in Req |-> 0]
    /\ appliedPromo = [p \in Req |-> NoPromo]
    /\ usedCredit = [p \in Req |-> NoCredit]
    /\ enrollments = [p \in Req |-> {}]
    /\ tx = [p \in Req |-> NoTx]
    /\ staged = [p \in Req |-> NoStaged]
    /\ err = [p \in Req |-> NoErr]
    /\ outcome = [p \in Req |-> Pending]

(***************************************************************************)
(* Reads of the store made without a transaction                           *)
(***************************************************************************)
\* StudentModel.findOne({ where: { id, parentId } }) with its parent account
getStudent(a) ==
    LET found == {s \in Students : s.id = a.studentId /\ s.parentId = a.userId}
    IN  IF found = {} THEN NoStudent
        ELSE LET s == CHOOSE x \in found : TRUE
             IN  [id |-> s.id, parentId |-> s.parentId,
                  parent |-> [paid |-> dbAccounts.paid, refererId |-> dbAccounts.refererId]]

\* account.getBalanceInCents(): the sum of the account's committed credit rows
getBalanceInCents(userId) == SumCents({c \in dbCredits : c.userId = userId})

\* helper/promo-helper getPromotionIfQualified: the promotion if it exists, is
\* not exhausted and fits the course; NoPromo (null) otherwise
getPromotionIfQualified(promotionId, account, course) ==
    IF promotionId \notin DOMAIN Promotions THEN NoPromo
    ELSE IF dbPromotions[promotionId].counts >= Promotions[promotionId].maxUses THEN NoPromo
    ELSE IF Promotions[promotionId].regularOnly /\ ~course.isRegular THEN NoPromo
    ELSE promotionId

(***************************************************************************)
(* Control flow between the awaits of the try block (lines 141-248)        *)
(***************************************************************************)
\* a charge made whatever the remaining price is
AfterEnrollments_AlwaysSale(price) == "sale"

AfterEnrollments(price) == IF price > 0 THEN "sale" ELSE "commit"

\* a referral condition that does not look at the remaining price
AfterPaid_IgnoresPrice(p, price) ==
    IF student[p].parent.refererId # NoUser THEN "createReferral" ELSE "bulkCreate"

AfterPaid(p, price) ==
    IF price > 0 /\ student[p].parent.refererId # NoUser THEN "createReferral"
    ELSE "bulkCreate"

\* a paid step that does not look at the kind of the main course
AfterCredit_IgnoresRegular(p, price) ==
    IF ~student[p].parent.paid THEN "updatePaid" ELSE "bulkCreate"

\* a paid step that does not look at the account's paid flag
AfterCredit_IgnoresPaid(p, price) ==
    IF MainKlass(klasses[p]).course.isRegular THEN "updatePaid" ELSE "bulkCreate"

AfterCredit(p, price) ==
    IF MainKlass(klasses[p]).course.isRegular /\ ~student[p].parent.paid THEN "updatePaid"
    ELSE "bulkCreate"

AfterPromo(p, price) ==
    IF price > 0 /\ args[p].credit > 0 THEN "createCredit" ELSE AfterCredit(p, price)

AfterBegin(p, price) ==
    IF price > 0 /\ args[p].promotionId # NoPromo THEN "getPromotion" ELSE AfterPromo(p, price)

\* the handler returns or throws: its locals are gone, the caller has the outcome
Finish(p, status, error, value) ==
    /\ outcome' = [outcome EXCEPT ![p] = [status |-> status, error |-> error, value |-> value]]
    /\ pc' = [pc EXCEPT ![p] = "done"]
    /\ args' = [args EXCEPT ![p] = NoArgs]
    /\ student' = [student EXCEPT ![p] = NoStudent]
    /\ klasses' = [klasses EXCEPT ![p] = <<>>]
    /\ balanceInCents' = [balanceInCents EXCEPT ![p] = 0]
    /\ balanceAtTxStart' = [balanceAtTxStart EXCEPT ![p] = 0]
    /\ priceInCents' = [priceInCents EXCEPT ![p] = 0]
    /\ appliedPromo' = [appliedPromo EXCEPT ![p] = NoPromo]
    /\ usedCredit' = [usedCredit EXCEPT ![p] = NoCredit]
    /\ enrollments' = [enrollments EXCEPT ![p] = {}]
    /\ err' = [err EXCEPT ![p] = NoErr]

\* an error that is recorded and swallowed: the handler goes on to commit
Throw_Continues(p, kind) ==
    /\ err' = [err EXCEPT ![p] = [kind |-> kind, step |-> pc[p]]]
    /\ pc' = [pc EXCEPT ![p] = "commit"]

\* an error thrown inside the try block: control goes to the catch at line 249
Throw(p, kind) ==
    /\ err' = [err EXCEPT ![p] = [kind |-> kind, step |-> pc[p]]]
    /\ pc' = [pc EXCEPT ![p] = "catch"]

(***************************************************************************)
(* enrollClass, one action per await                                       *)
(***************************************************************************)
\* lines 88-106: authentication, then the student and the classes are loaded
EnrollClass(p, a) ==
    /\ pc[p] = "idle"
    /\ handler' = [handler EXCEPT ![p] = "enrollClass"]
    /\ LET s == getStudent(a)
           ks == FindAllClasses(SeqToSet(a.classIds))
       IN  IF a.userId = NoUser
           THEN /\ Finish(p, "thrown", [kind |-> "Unauthorized", step |-> "validate"], {})
                /\ UNCHANGED <<db, ext, tx, staged>>
           ELSE IF s = NoStudent
           THEN /\ Finish(p, "thrown", [kind |-> "NotFound", step |-> "validate"], {})
                /\ UNCHANGED <<db, ext, tx, staged>>
           ELSE IF Len(ks) = 0
           THEN /\ Finish(p, "thrown", [kind |-> "BadRequest", step |-> "validate"], {})
                /\ UNCHANGED <<db, ext, tx, staged>>
           ELSE /\ args' = [args EXCEPT ![p] = a]
                /\ student' = [student EXCEPT ![p] = s]
                /\ klasses' = [klasses EXCEPT ![p] = ks]
                /\ pc' = [pc EXCEPT ![p] = IF a.credit > 0 THEN "getBalance" ELSE "begin"]
                /\ UNCHANGED <<db, ext, tx, staged, err, outcome, balanceInCents,
                               balanceAtTxStart, priceInCents, appliedPromo, usedCredit,
                               enrollments>>

\* a balance check that never rejects
CheckCredit_NoReject(p) ==
    /\ pc[p] = "getBalance"
    /\ balanceInCents' = [balanceInCents EXCEPT ![p] = getBalanceInCents(student[p].parentId)]
    /\ pc' = [pc EXCEPT ![p] = "begin"]
    /\ UNCHANGED <<db, ext, tx, staged, err, outcome, args, student, klasses,
                   balanceAtTxStart, priceInCents, appliedPromo, usedCredit, enrollments>>
    /\ UNCHANGED handler

\* lines 108-113: the requested credit against the balance as read now
CheckCredit(p) ==
    /\ pc[p] = "getBalance"
    /\ LET balance == getBalanceInCents(student[p].parentId)
       IN  IF args[p].credit > balance
           THEN /\ Finish(p, "thrown", [kind |-> "BadRequest", step |-> "validate"], {})
                /\ UNCHANGED <<db, ext, tx, staged>>
           ELSE /\ balanceInCents' = [balanceInCents EXCEPT ![p] = balance]
                /\ pc' = [pc EXCEPT ![p] = "begin"]
                /\ UNCHANGED <<db, ext, tx, staged, err, outcome, args, student, klasses,
                               balanceAtTxStart, priceInCents, appliedPromo, usedCredit,
                               enrollments>>
    /\ UNCHANGED handler

\* lines 115-139: the price is computed and the transaction is opened
BeginTransaction(p) ==
    /\ pc[p] = "begin"
    /\ LET price == getTotalPriceInCents(klasses[p], [wholeSeries |-> args[p].wholeSeries])
       IN  /\ priceInCents' = [priceInCents EXCEPT ![p] = price]
           /\ pc' = [pc EXCEPT ![p] = AfterBegin(p, price)]
    /\ tx' = [tx EXCEPT ![p] = [started |-> TRUE, finished |-> "", committed |-> FALSE]]
    /\ balanceAtTxStart' =
           [balanceAtTxStart EXCEPT ![p] = getBalanceInCents(student[p].parentId)]
    /\ UNCHANGED <<db, ext, staged, err, outcome, args, student, klasses, balanceInCents,
                   appliedPromo, usedCredit, enrollments>>
    /\ UNCHANGED handler

\* lines 144-152: the promotion is looked up outside the transaction
GetPromotion(p) ==
    /\ pc[p] = "getPromotion"
    /\ LET promo == getPromotionIfQualified(args[p].promotionId, student[p].parent,
                                            MainKlass(klasses[p]).course)
       IN  IF promo = NoPromo
           THEN /\ Throw(p, "BadRequest")
                /\ UNCHANGED appliedPromo
           ELSE /\ appliedPromo' = [appliedPromo EXCEPT ![p] = promo]
                /\ pc' = [pc EXCEPT ![p] = "increment"]
                /\ UNCHANGED err
    /\ UNCHANGED <<db, ext, tx, staged, outcome, args, student, klasses, balanceInCents,
                   balanceAtTxStart, priceInCents, usedCredit, enrollments>>
    /\ UNCHANGED handler

\* an increment made without txOpts: it is visible at once and no rollback undoes it
IncrementCounts_NoTransaction(p) ==
    /\ pc[p] = "increment"
    /\ dbPromotions' = [dbPromotions EXCEPT ![appliedPromo[p]].counts = @ + 1]
    /\ LET isBundle == Len(klasses[p]) > 1 /\ ~args[p].wholeSeries
           price == applyPromo(priceInCents[p], Promotions[appliedPromo[p]],
                               [isBundle |-> isBundle,
                                wholeSeries |-> args[p].wholeSeries]).result
       IN  /\ priceInCents' = [priceInCents EXCEPT ![p] = price]
           /\ pc' = [pc EXCEPT ![p] = AfterPromo(p, price)]
    /\ UNCHANGED <<dbAccounts, dbCredits, dbEnrollments, dbTransactions, ext, tx, staged, err,
                   outcome, args, student, klasses, balanceInCents, balanceAtTxStart,
                   appliedPromo, usedCredit, enrollments>>
    /\ UNCHANGED handler

\* lines 154-159: UPDATE ... SET counts = counts + 1 in tx (the row stays locked
\* by tx until it ends), then the discount
IncrementCounts(p) ==
    /\ pc[p] = "increment"
    /\ \A q \in Req \ {p} : staged[q].counts[appliedPromo[p]] = 0
    /\ staged' = [staged EXCEPT ![p].counts[appliedPromo[p]] = @ + 1]
    /\ LET isBundle == Len(klasses[p]) > 1 /\ ~args[p].wholeSeries
           price == applyPromo(priceInCents[p], Promotions[appliedPromo[p]],
                               [isBundle |-> isBundle,
                                wholeSeries |-> args[p].wholeSeries]).result
       IN  /\ priceInCents' = [priceInCents EXCEPT ![p] = price]
           /\ pc' = [pc EXCEPT ![p] = AfterPromo(p, price)]
    /\ UNCHANGED <<db, ext, tx, err, outcome, args, student, klasses, balanceInCents,
                   balanceAtTxStart, appliedPromo, usedCredit, enrollments>>
    /\ UNCHANGED handler

\* a credit step that records the requested credit instead of the consumed one
CreateCredit_Requested(p) ==
    /\ pc[p] = "createCredit"
    /\ LET applied == applyCredit(priceInCents[p], args[p].credit)
           row == [id |-> 2 * p, userId |-> args[p].userId, cents |-> 0 - args[p].credit,
                   type |-> CreditType.Purchase, attribution |-> args[p].userId, req |-> p]
       IN  /\ staged' = [staged EXCEPT ![p].credits = @ \cup {row}]
           /\ usedCredit' = [usedCredit EXCEPT ![p] = row]
           /\ priceInCents' = [priceInCents EXCEPT ![p] = applied.result]
           /\ pc' = [pc EXCEPT ![p] = AfterCredit(p, applied.result)]
    /\ UNCHANGED <<db, ext, tx, err, outcome, args, student, klasses, balanceInCents,
                   balanceAtTxStart, appliedPromo, enrollments>>
    /\ UNCHANGED handler

\* lines 163-186: the Purchase credit row of -applied.used cents
CreateCredit(p) ==
    /\ pc[p] = "createCredit"
    /\ LET applied == applyCredit(priceInCents[p], args[p].credit)
           row == [id |-> 2 * p, userId |-> args[p].userId, cents |-> 0 - applied.used,
                   type |-> CreditType.Purchase, attribution |-> args[p].userId, req |-> p]
       IN  /\ staged' = [staged EXCEPT ![p].credits = @ \cup {row}]
           /\ usedCredit' = [usedCredit EXCEPT ![p] = row]
           /\ priceInCents' = [priceInCents EXCEPT ![p] = applied.result]
           /\ pc' = [pc EXCEPT ![p] = AfterCredit(p, applied.result)]
    /\ UNCHANGED <<db, ext, tx, err, outcome, args, student, klasses, balanceInCents,
                   balanceAtTxStart, appliedPromo, enrollments>>
    /\ UNCHANGED handler

\* lines 188-189: UPDATE of the account row in tx (locked by tx until it ends);
\* the loaded instance takes the new value
UpdatePaid(p) ==
    /\ pc[p] = "updatePaid"
    /\ \A q \in Req \ {p} : ~staged[q].paid
    /\ staged' = [staged EXCEPT ![p].paid = TRUE]
    /\ student' = [student EXCEPT ![p].parent.paid = TRUE]
    /\ pc' = [pc EXCEPT ![p] = AfterPaid(p, priceInCents[p])]
    /\ UNCHANGED <<db, ext, tx, err, outcome, args, klasses, balanceInCents,
                   balanceAtTxStart, priceInCents, appliedPromo, usedCredit, enrollments>>
    /\ UNCHANGED handler

\* lines 191-210: the Referral credit row for the referring account
CreateReferral(p) ==
    /\ pc[p] = "createReferral"
    /\ LET row == [id |-> 2 * p + 1, userId |-> student[p].parent.refererId,
                   cents |-> ReferralCredits.purchase, type |-> CreditType.Referral,
                   attribution |-> student[p].parentId, req |-> p]
       IN  staged' = [staged EXCEPT ![p].credits = @ \cup {row}]
    /\ pc' = [pc EXCEPT ![p] = "bulkCreate"]
    /\ UNCHANGED <<db, ext, tx, err, outcome, locals>>
    /\ UNCHANGED handler

\* lines 213-223: one Enrollment row per class
BulkCreate(p) ==
    /\ pc[p] = "bulkCreate"
    /\ LET rows == {[studentId |-> student[p].id, classId |-> klasses[p][i].id,
                     promotionId |-> appliedPromo[p], creditId |-> usedCredit[p].id,
                     req |-> p] : i \in 1..Len(klasses[p])}
       IN  /\ staged' = [staged EXCEPT ![p].enrollments = rows]
           /\ enrollments' = [enrollments EXCEPT ![p] = rows]
    /\ pc' = [pc EXCEPT ![p] = AfterEnrollments(priceInCents[p])]
    /\ UNCHANGED <<db, ext, tx, err, outcome, args, student, klasses, balanceInCents,
                   balanceAtTxStart, priceInCents, appliedPromo, usedCredit>>
    /\ UNCHANGED handler

\* a charge of priceInCents, not divided by 100
Sale_InCents(p, ok) ==
    /\ pc[p] = "sale"
    /\ saleCalls' = [saleCalls EXCEPT ![p] = @ + 1]
    /\ IF ok
       THEN /\ braintreeSales' = braintreeSales \cup
                   {[req |-> p, amount |-> [units |-> priceInCents[p], hundredths |-> 0],
                     orderId |-> <<args[p].classIds[1], args[p].studentId>>]}
            /\ pc' = [pc EXCEPT ![p] = "createTransaction"]
            /\ UNCHANGED err
       ELSE /\ Throw(p, "PaymentFailure")
            /\ UNCHANGED braintreeSales
    /\ UNCHANGED <<db, eventBus, tx, staged, outcome, locals>>
    /\ UNCHANGED handler

\* lines 225-232: the gateway captures priceInCents / 100, or refuses
Sale(p, ok) ==
    /\ pc[p] = "sale"
    /\ saleCalls' = [saleCalls EXCEPT ![p] = @ + 1]
    /\ IF ok
       THEN /\ braintreeSales' = braintreeSales \cup
                   {[req |-> p, amount |-> MajorUnits(priceInCents[p]),
                     orderId |-> <<args[p].classIds[1], args[p].studentId>>]}
            /\ pc' = [pc EXCEPT ![p] = "createTransaction"]
            /\ UNCHANGED err
       ELSE /\ Throw(p, "PaymentFailure")
            /\ UNCHANGED braintreeSales
    /\ UNCHANGED <<db, eventBus, tx, staged, outcome, locals>>
    /\ UNCHANGED handler

\* lines 234-237: the TransactionModel row with the gateway's details
CreateTransaction(p) ==
    /\ pc[p] = "createTransaction"
    /\ LET details == CHOOSE s \in braintreeSales : s.req = p
       IN  staged' = [staged EXCEPT ![p].transactions =
                          {[id |-> p, details |-> details, enrollments |-> {}]}]
    /\ pc' = [pc EXCEPT ![p] = "addEnrollments"]
    /\ UNCHANGED <<db, ext, tx, err, outcome, locals>>
    /\ UNCHANGED handler

\* line 239: the sale record is linked to the enrollments of this request
AddEnrollments(p) ==
    /\ pc[p] = "addEnrollments"
    /\ staged' = [staged EXCEPT ![p].transactions =
                      {[t EXCEPT !.enrollments = enrollments[p]] : t \in @}]
    /\ pc' = [pc EXCEPT ![p] = "commit"]
    /\ UNCHANGED <<db, ext, tx, err, outcome, locals>>
    /\ UNCHANGED handler

\* any write of the try block may be refused by the store (conflict, deadlock,
\* lost connection): the await rejects and nothing is staged
WriteFails(p) ==
    /\ pc[p] \in WriteSteps
    /\ Throw(p, "StoreError")
    /\ UNCHANGED <<db, ext, tx, staged, outcome, locals>>
    /\ UNCHANGED handler

\* a commit whose refusal goes unnoticed: the handler goes on to the event
Commit_Unchecked(p, ok) ==
    /\ pc[p] = "commit"
    /\ tx' = [tx EXCEPT ![p].finished = "commit", ![p].committed = ok]
    /\ staged' = [staged EXCEPT ![p] = NoStaged]
    /\ IF ok
       THEN /\ dbPromotions' =
                   [i \in DOMAIN dbPromotions |->
                       [counts |-> dbPromotions[i].counts + staged[p].counts[i]]]
            /\ dbAccounts' = [dbAccounts EXCEPT !.paid = @ \/ staged[p].paid]
            /\ dbCredits' = dbCredits \cup staged[p].credits
            /\ dbEnrollments' = dbEnrollments \cup staged[p].enrollments
            /\ dbTransactions' = dbTransactions \cup staged[p].transactions
       ELSE UNCHANGED db
    /\ pc' = [pc EXCEPT ![p] = "emit"]
    /\ UNCHANGED <<ext, err, outcome, locals>>
    /\ UNCHANGED handler

\* line 244: tx.commit() makes the staged writes visible, all at once; a commit
\* the store refuses leaves nothing visible and the transaction finished
Commit(p, ok) ==
    /\ pc[p] = "commit"
    /\ tx' = [tx EXCEPT ![p].finished = "commit", ![p].committed = ok]
    /\ staged' = [staged EXCEPT ![p] = NoStaged]
    /\ IF ok
       THEN /\ dbPromotions' =
                   [i \in DOMAIN dbPromotions |->
                       [counts |-> dbPromotions[i].counts + staged[p].counts[i]]]
            /\ dbAccounts' = [dbAccounts EXCEPT !.paid = @ \/ staged[p].paid]
            /\ dbCredits' = dbCredits \cup staged[p].credits
            /\ dbEnrollments' = dbEnrollments \cup staged[p].enrollments
            /\ dbTransactions' = dbTransactions \cup staged[p].transactions
            /\ pc' = [pc EXCEPT ![p] = "emit"]
            /\ UNCHANGED err
       ELSE /\ Throw(p, "StoreError")
            /\ UNCHANGED db
    /\ UNCHANGED <<ext, outcome, locals>>
    /\ UNCHANGED handler

\* lines 246-248: the event is published, then the enrollments are returned;
\* emitEnrollClassEvent is awaited inside the try block, so its rejection is caught
EmitEnrollClassEvent(p, ok) ==
    /\ pc[p] = "emit"
    /\ IF ok
       THEN /\ eventBus' = eventBus \cup {[req |-> p, enrollments |-> enrollments[p]]}
            /\ Finish(p, "returned", NoErr, enrollments[p])
       ELSE /\ Throw(p, "EventBusError")
            /\ UNCHANGED <<eventBus, outcome, locals>>
    /\ UNCHANGED <<db, braintreeSales, saleCalls, tx, staged>>
    /\ UNCHANGED handler

\* the error tx.rollback() rejects with
RollbackError == [kind |-> "RollbackError", step |-> "rollback"]

\* what `await tx.rollback()` can do on an open transaction.  It resolves, or it
\* rejects; what a rejected rollback leaves behind is decided by the library and
\* the store, not by the handler: the transaction still open ("open"), the
\* transaction object marked finished while the store still holds its writes and
\* its row locks ("marked"), or the transaction dropped by the store although
\* the call rejected, as on a lost connection ("ended")
RollbackResults == {"resolved", "open", "marked", "ended"}

\* the transaction and its staged writes after a rejected rollback of kind r
RejectedRollback(p, r) ==
    /\ tx' = IF r = "open" THEN tx ELSE [tx EXCEPT ![p].finished = "rollback"]
    /\ staged' = IF r = "ended" THEN [staged EXCEPT ![p] = NoStaged] ELSE staged

\* a catch block that undoes by hand what a finished transaction had committed
Catch_Undoing(p, r) ==
    /\ pc[p] = "catch"
    /\ IF tx[p].finished = ""
       THEN /\ IF r = "resolved"
               THEN /\ tx' = [tx EXCEPT ![p].finished = "rollback"]
                    /\ staged' = [staged EXCEPT ![p] = NoStaged]
                    /\ Finish(p, "thrown", err[p], {})
               ELSE /\ RejectedRollback(p, r)
                    /\ Finish(p, "thrown", RollbackError, {})
            /\ UNCHANGED db
       ELSE /\ tx' = [tx EXCEPT ![p].finished = "rollback", ![p].committed = FALSE]
            /\ dbEnrollments' = {e \in dbEnrollments : e.req # p}
            /\ dbCredits' = {c \in dbCredits : c.req # p}
            /\ dbTransactions' = {t \in dbTransactions : t.id # p}
            /\ Finish(p, "thrown", err[p], {})
            /\ UNCHANGED <<dbPromotions, dbAccounts, staged>>
    /\ UNCHANGED ext
    /\ UNCHANGED handler

\* a catch block that also voids the charge the gateway captured for the attempt
Catch_Reversing(p, r) ==
    /\ pc[p] = "catch"
    /\ braintreeSales' = {s \in braintreeSales : s.req # p}
    /\ IF tx[p].finished # ""
       THEN /\ Finish(p, "thrown", RollbackError, {})
            /\ UNCHANGED <<tx, staged>>
       ELSE IF r = "resolved"
       THEN /\ tx' = [tx EXCEPT ![p].finished = "rollback"]
            /\ staged' = [staged EXCEPT ![p] = NoStaged]
            /\ Finish(p, "thrown", err[p], {})
       ELSE /\ RejectedRollback(p, r)
            /\ Finish(p, "thrown", RollbackError, {})
    /\ UNCHANGED <<db, saleCalls, eventBus>>
    /\ UNCHANGED handler

\* a catch block that ends the transaction with commit() instead of rollback()
Catch_Committing(p, r) ==
    /\ pc[p] = "catch"
    /\ IF tx[p].finished # ""
       THEN /\ Finish(p, "thrown", RollbackError, {})
            /\ UNCHANGED <<db, tx, staged>>
       ELSE IF r = "resolved"
       THEN /\ tx' = [tx EXCEPT ![p].finished = "commit"]
            /\ staged' = [staged EXCEPT ![p] = NoStaged]
            /\ dbPromotions' =
                   [i \in DOMAIN dbPromotions |->
                       [counts |-> dbPromotions[i].counts + staged[p].counts[i]]]
            /\ dbAccounts' = [dbAccounts EXCEPT !.paid = @ \/ staged[p].paid]
            /\ dbCredits' = dbCredits \cup staged[p].credits
            /\ dbEnrollments' = dbEnrollments \cup staged[p].enrollments
            /\ dbTransactions' = dbTransactions \cup staged[p].transactions
            /\ Finish(p, "thrown", err[p], {})
       ELSE /\ RejectedRollback(p, r)
            /\ Finish(p, "thrown", RollbackError, {})
            /\ UNCHANGED db
    /\ UNCHANGED ext
    /\ UNCHANGED handler

\* lines 249-254: `await tx.rollback()`, then `throw err`.  rollback() is awaited
\* unguarded before the throw: when it resolves, the staged writes are dropped
\* and the caught error is thrown again; when it rejects, that rejection is what
\* the handler throws and `throw err` is never reached.  It rejects on a
\* transaction that is already finished (commit() was called), whatever r is,
\* changing nothing; and it may reject on an open one, as the store may refuse
\* any write, leaving the transaction as RejectedRollback says.
Catch(p, r) ==
    /\ pc[p] = "catch"
    /\ IF tx[p].finished # ""
       THEN /\ Finish(p, "thrown", RollbackError, {})
            /\ UNCHANGED <<tx, staged>>
       ELSE IF r = "resolved"
       THEN /\ tx' = [tx EXCEPT ![p].finished = "rollback"]
            /\ staged' = [staged EXCEPT ![p] = NoStaged]
            /\ Finish(p, "thrown", err[p], {})
       ELSE /\ RejectedRollback(p, r)
            /\ Finish(p, "thrown", RollbackError, {})
    /\ UNCHANGED <<db, ext>>
    /\ UNCHANGED handler

(***************************************************************************)
(* enrollTrial (lines 37-81), one action per await.  It opens no           *)
(* transaction and has no try block: its write is visible at once and a    *)
(* rejected await is thrown to the caller as it is.                        *)
(***************************************************************************)
\* lines 42-59: authentication, then the student and the class are loaded (both
\* with rejectOnEmpty), then the class must be of a trial course
EnrollTrial(p, a) ==
    /\ pc[p] = "idle"
    /\ handler' = [handler EXCEPT ![p] = "enrollTrial"]
    /\ LET s == getStudent(a)
           found == {k \in Classes : k.id = a.classId}
       IN  IF a.userId = NoUser
           THEN /\ Finish(p, "thrown", [kind |-> "Unauthorized", step |-> "validate"], {})
                /\ UNCHANGED <<db, ext, tx, staged>>
           ELSE IF s = NoStudent \/ found = {}
           THEN /\ Finish(p, "thrown", [kind |-> "NotFound", step |-> "validate"], {})
                /\ UNCHANGED <<db, ext, tx, staged>>
           ELSE IF ~(CHOOSE k \in found : TRUE).course.isTrial
           THEN /\ Finish(p, "thrown", [kind |-> "BadRequest", step |-> "validate"], {})
                /\ UNCHANGED <<db, ext, tx, staged>>
           ELSE /\ student' = [student EXCEPT ![p] = s]
                /\ klasses' = [klasses EXCEPT ![p] = <<CHOOSE k \in found : TRUE>>]
                /\ pc' = [pc EXCEPT ![p] = "createEnrollment"]
                /\ UNCHANGED <<db, ext, tx, staged, err, outcome, args, balanceInCents,
                               balanceAtTxStart, priceInCents, appliedPromo, usedCredit,
                               enrollments>>

\* lines 61-66: EnrollmentModel.create without a transaction: the row is in the
\* store as soon as the await resolves; a refused write is thrown to the caller
CreateEnrollment(p, ok) ==
    /\ pc[p] = "createEnrollment"
    /\ IF ok
       THEN /\ LET enrollment == [studentId |-> student[p].id, classId |-> klasses[p][1].id,
                                  promotionId |-> NoPromo, creditId |-> NoCredit.id,
                                  req |-> p]
               IN  /\ dbEnrollments' = dbEnrollments \cup {enrollment}
                   /\ enrollments' = [enrollments EXCEPT ![p] = {enrollment}]
            /\ pc' = [pc EXCEPT ![p] = "emitTrial"]
            /\ UNCHANGED <<err, outcome, args, student, klasses, balanceInCents,
                           balanceAtTxStart, priceInCents, appliedPromo, usedCredit>>
       ELSE /\ Finish(p, "thrown", [kind |-> "StoreError", step |-> "createEnrollment"], {})
            /\ UNCHANGED dbEnrollments
    /\ UNCHANGED <<dbPromotions, dbAccounts, dbCredits, dbTransactions, ext, tx, staged,
                   handler>>

\* lines 78-80: the event with the one enrollment is published, then the
\* enrollment is returned (here the one-element set holding it); a rejected
\* emission is thrown to the caller and the row stays in the store
EmitTrialEvent(p, ok) ==
    /\ pc[p] = "emitTrial"
    /\ IF ok
       THEN /\ eventBus' = eventBus \cup {[req |-> p, enrollments |-> enrollments[p]]}
            /\ Finish(p, "returned", NoErr, enrollments[p])
       ELSE /\ Finish(p, "thrown", [kind |-> "EventBusError", step |-> "emitTrial"], {})
            /\ UNCHANGED eventBus
    /\ UNCHANGED <<db, braintreeSales, saleCalls, tx, staged, handler>>

Next ==
    \E p \in Req :
        \/ \E a \in ArgsChoices : EnrollClass(p, a)
        \/ CheckCredit(p)
        \/ BeginTransaction(p)
        \/ GetPromotion(p)
        \/ IncrementCounts(p)
        \/ CreateCredit(p)
        \/ UpdatePaid(p)
        \/ CreateReferral(p)
        \/ BulkCreate(p)
        \/ \E ok \in BOOLEAN : Sale(p, ok)
        \/ CreateTransaction(p)
        \/ AddEnrollments(p)
        \/ WriteFails(p)
        \/ \E ok \in BOOLEAN : Commit(p, ok)
        \/ \E ok \in BOOLEAN : EmitEnrollClassEvent(p, ok)
        \/ \E r \in RollbackResults : Catch(p, r)
        \/ \E a \in TrialArgsChoices : EnrollTrial(p, a)
        \/ \E ok \in BOOLEAN : CreateEnrollment(p, ok)
        \/ \E ok \in BOOLEAN : EmitTrialEvent(p, ok)

Spec == Init /\ [][Next]_vars

\* requests made one after the other: a request arrives only while no other
\* request is in flight
EnrollClassInSequence(p, a) ==
    /\ \A q \in Req \ {p} : pc[q] \in {"idle", "done"}
    /\ EnrollClass(p, a)

EnrollTrialInSequence(p, a) ==
    /\ \A q \in Req \ {p} : pc[q] \in {"idle", "done"}
    /\ EnrollTrial(p, a)

NextInSequence ==
    \E p \in Req :
        \/ \E a \in ArgsChoices : EnrollClassInSequence(p, a)
        \/ CheckCredit(p)
        \/ BeginTransaction(p)
        \/ GetPromotion(p)
        \/ IncrementCounts(p)
        \/ CreateCredit(p)
        \/ UpdatePaid(p)
        \/ CreateReferral(p)
        \/ BulkCreate(p)
        \/ \E ok \in BOOLEAN : Sale(p, ok)
        \/ CreateTransaction(p)
        \/ AddEnrollments(p)
        \/ WriteFails(p)
        \/ \E ok \in BOOLEAN : Commit(p, ok)
        \/ \E ok \in BOOLEAN : EmitEnrollClassEvent(p, ok)
        \/ \E r \in RollbackResults : Catch(p, r)
        \/ \E a \in TrialArgsChoices : EnrollTrialInSequence(p, a)
        \/ \E ok \in BOOLEAN : CreateEnrollment(p, ok)
        \/ \E ok \in BOOLEAN : EmitTrialEvent(p, ok)

SpecInSequence == Init /\ [][NextInSequence]_vars

(***************************************************************************)
(* Properties                                                              *)
(***************************************************************************)
\* what request p has made visible in the store
EnrollmentsOf(p) == {e \in dbEnrollments : e.req = p}
CreditsOf(p) == {c \in dbCredits : c.req = p}
TransactionsOf(p) == {t \in dbTransactions : t.id = p}
NothingPersistedBy(p) ==
    /\ EnrollmentsOf(p) = {}
    /\ CreditsOf(p) = {}
    /\ TransactionsOf(p) = {}
    /\ ~tx[p].committed

\* the requests whose committed enrollments carry promotion i
CommittedUsersOf(i) == {q \in Req : \E e \in dbEnrollments : e.req = q /\ e.promotionId = i}

\* C1: an attempt whose gateway capture (sale) failed has ended rolled back and
\* has left nothing in the store: no Enrollment, Credit or PaymentTransaction row
\* of its own, nothing staged, and neither the promotion's counts nor the paid
\* flag holds a change that is not that of a committed attempt.  The same holds
\* of the store when the rollback after the sale failure is itself rejected: the
\* attempt (its one gateway call captured nothing) still has nothing persisted.
C1_SaleFailureLeavesStoreUnchanged ==
    /\ \A p \in Req :
        outcome[p].error.kind = "PaymentFailure" =>
            /\ outcome[p].status = "thrown"
            /\ NothingPersistedBy(p)
            /\ tx[p].finished = "rollback"
            /\ staged[p] = NoStaged
    /\ \A p \in Req :
        (saleCalls[p] = 1 /\ \A s \in braintreeSales : s.req # p) =>
            /\ NothingPersistedBy(p)
            /\ outcome[p].status # "returned"
            /\ pc[p] = "done" => outcome[p].error.kind \in {"PaymentFailure", "RollbackError"}
    /\ \A i \in DOMAIN Promotions :
        dbPromotions[i].counts = Cardinality(CommittedUsersOf(i))
    /\ dbAccounts.paid => \E q \in Req : tx[q].committed /\ EnrollmentsOf(q) # {}

\* C1 witness: one attempt ended on a gateway failure while another one committed
C1_Witness ==
    \E p, q \in Req :
        /\ outcome[p].error.kind = "PaymentFailure"
        /\ tx[q].committed
        /\ dbPromotions[LimitedPromo].counts = 1

\* C2 (as claimed): an enrollClass request that surfaces an error to the caller
\* has persisted nothing, and an enrollClass request whose transaction committed
\* returns its enrollments.
C2_ErrorMeansNothingPersisted ==
    \A p \in Req :
        handler[p] = "enrollClass" =>
            /\ outcome[p].status = "thrown" => NothingPersistedBy(p)
            /\ (tx[p].committed /\ pc[p] = "done") =>
                   (outcome[p].status = "returned" /\ outcome[p].value = EnrollmentsOf(p))

\* C3 (as claimed): the committed counts of a promotion never exceeds its cap K.
C3_CountsNeverExceedsCap ==
    \A i \in DOMAIN Promotions : dbPromotions[i].counts <= Promotions[i].maxUses

\* the Referral credit rows committed for the referring account on behalf of
\* the caller's account
ReferralRows ==
    {c \in dbCredits : /\ c.type = CreditType.Referral
                       /\ c.userId = RefererId
                       /\ c.attribution = ParentId}

\* C4 (as claimed): at most one Referral credit row is ever committed for the
\* referring account on behalf of the account.
C4_AtMostOneReferralCredit == Cardinality(ReferralRows) <= 1

\* C5 (as claimed): the credit a committed transaction consumed is at most the
\* account's balance at the moment the transaction was opened, and the balance
\* is never negative.
C5_CreditWithinBalanceAtTxStart ==
    /\ \A p \in Req :
        (pc[p] = "emit" /\ tx[p].committed) =>
            0 - usedCredit[p].cents <= balanceAtTxStart[p]
    /\ getBalanceInCents(ParentId) >= 0

\* C6: whenever the credit step acts on price P with requested credit C, C is
\* at most the balance read for the request, the consumed amount is min(C, P),
\* the new price is P - consumed and not negative, and the Purchase credit row
\* staged records -consumed cents; a request whose credit exceeds the balance
\* read is rejected with a bad request and reaches no credit step.
C6_CreditBound ==
    [][\A p \in Req :
        /\ (pc[p] = "getBalance" /\ pc'[p] # "getBalance") =>
               IF args[p].credit > getBalanceInCents(ParentId)
               THEN /\ outcome'[p].status = "thrown"
                    /\ outcome'[p].error.kind = "BadRequest"
                    /\ db' = db
               ELSE pc'[p] = "begin"
        /\ (pc[p] = "createCredit" /\ pc'[p] \notin {"createCredit", "catch"}) =>
               LET P == priceInCents[p]
                   C == args[p].credit
                   consumed == Min(C, P)
               IN  /\ P >= 0 /\ C >= 0
                   /\ C <= balanceInCents[p]
                   /\ priceInCents'[p] = P - consumed
                   /\ priceInCents'[p] >= 0
                   /\ usedCredit'[p].cents = 0 - consumed
                   /\ usedCredit'[p].type = CreditType.Purchase
                   /\ usedCredit'[p] \in staged'[p].credits
      ]_vars

\* C6 witness: the credit step has clamped the requested credit at the price
C6_Witness ==
    \E p \in Req :
        /\ usedCredit[p] # NoCredit
        /\ 0 - usedCredit[p].cents < args[p].credit
        /\ priceInCents[p] = 0
        /\ usedCredit[p] \in staged[p].credits

\* the promotion a request names is not eligible as the store stands
NotEligible(p) ==
    /\ args[p].promotionId # NoPromo
    /\ getPromotionIfQualified(args[p].promotionId, student[p].parent,
                               MainKlass(klasses[p]).course) = NoPromo

\* C7 (as claimed): no request that names a promotion which is not eligible and
\* was not applied has its enrollments committed.
C7_IneligiblePromotionFailsRequest ==
    \A p \in Req :
        (pc[p] = "emit" /\ tx[p].committed /\ EnrollmentsOf(p) # {}) =>
            ~(NotEligible(p) /\ appliedPromo[p] = NoPromo)

\* the arguments pass the validation of lines 88-113
ValidArgs(p) ==
    /\ args[p].userId # NoUser
    /\ \E s \in Students : s.id = args[p].studentId /\ s.parentId = args[p].userId
    /\ \E k \in Classes : k.id \in SeqToSet(args[p].classIds)
    /\ args[p].credit > 0 => args[p].credit <= balanceInCents[p]

\* C8: a request rejected in validation never opened a transaction, staged or
\* wrote nothing, made no gateway call and emitted no event; and every request
\* that has opened a transaction has passed each of the four validations.
C8_ValidationBeforeTransaction ==
    \A p \in Req :
        /\ outcome[p].error.step = "validate" =>
               /\ outcome[p].status = "thrown"
               /\ outcome[p].error.kind \in ValidationKinds
               /\ ~tx[p].started
               /\ staged[p] = NoStaged
               /\ NothingPersistedBy(p)
               /\ saleCalls[p] = 0
               /\ \A s \in braintreeSales : s.req # p
               /\ \A e \in eventBus : e.req # p
        /\ (tx[p].started /\ pc[p] # "done") => ValidArgs(p)

\* C8 witness: a request was rejected for its credit after another one committed
C8_Witness ==
    \E p, q \in Req :
        /\ outcome[p].error = [kind |-> "BadRequest", step |-> "validate"]
        /\ tx[q].committed
        /\ CreditsOf(q) # {}

\* C9: the gateway is invoked at most once per attempt and only with a remaining
\* price above zero; an attempt that commits with remaining price 0 has its
\* Enrollment rows persisted, made no gateway call and has no PaymentTransaction.
C9_GatewayOnlyForPositivePrice ==
    \A p \in Req :
        /\ saleCalls[p] <= 1
        /\ Cardinality({s \in braintreeSales : s.req = p}) <= saleCalls[p]
        /\ (saleCalls[p] = 1 /\ pc[p] # "done") => priceInCents[p] > 0
        /\ (pc[p] = "emit" /\ tx[p].committed /\ priceInCents[p] = 0) =>
               /\ saleCalls[p] = 0
               /\ TransactionsOf(p) = {}
               /\ EnrollmentsOf(p) # {}
               /\ EnrollmentsOf(p) = enrollments[p]

\* C9 witness: an attempt whose price credit brought to 0 has committed unpaid
C9_Witness ==
    \E p \in Req :
        /\ pc[p] = "emit"
        /\ tx[p].committed
        /\ priceInCents[p] = 0
        /\ usedCredit[p] # NoCredit
        /\ EnrollmentsOf(p) # {}

\* C10: every event of an enrollClass attempt on the bus belongs to an attempt
\* whose transaction has committed and carries exactly the Enrollment rows of
\* that attempt; an enrollClass attempt rejected in validation or rolled back has
\* no event.  (enrollTrial opens no transaction: its event follows its write.)
C10_EventOnlyAfterCommit ==
    /\ \A e \in eventBus :
        /\ handler[e.req] = "enrollClass" => tx[e.req].committed
        /\ e.enrollments # {}
        /\ e.enrollments = EnrollmentsOf(e.req)
    /\ \A p \in Req :
        (/\ handler[p] = "enrollClass"
         /\ \/ outcome[p].error.step = "validate"
            \/ tx[p].finished = "rollback"
            \/ ~tx[p].committed) =>
            \A e \in eventBus : e.req # p

\* C10 witness: an event is on the bus while another attempt was rolled back
C10_Witness ==
    \E p, q \in Req :
        /\ \E e \in eventBus : e.req = p /\ Cardinality(e.enrollments) = 2
        /\ tx[q].finished = "rollback"

\* the committed purchases of a regular main course with a remaining price above
\* zero (a PaymentTransaction row exists for them)
PaidRegularPurchases ==
    {p \in Req :
        /\ tx[p].committed
        /\ TransactionsOf(p) # {}
        /\ MainKlass(FindAllClasses({e.classId : e \in EnrollmentsOf(p)})).course.isRegular}

\* request p commits, in this step, a purchase of a regular main course with a
\* remaining price above zero
CommitsPaidRegularPurchase(p) ==
    /\ pc[p] = "commit"
    /\ pc'[p] = "emit"
    /\ MainKlass(klasses[p]).course.isRegular
    /\ priceInCents[p] > 0

\* C11: with requests made in sequence for an account that has a refererId, the
\* first committed purchase of a regular course with remaining price above zero
\* on the still unpaid account leaves exactly one Referral credit row and the
\* paid flag true; every later such purchase adds no Referral row and leaves
\* paid true; so two of them give exactly one Referral row and one change of
\* paid, which never goes back to false.
C11_SequentialPurchasesOneReferral ==
    [][/\ dbAccounts.paid => dbAccounts'.paid
       /\ ~dbAccounts'.paid => ReferralRows' = {}
       /\ Cardinality(ReferralRows') <= 1
       /\ \A p \in Req :
            (CommitsPaidRegularPurchase(p) /\ dbAccounts.refererId = RefererId) =>
                IF ~dbAccounts.paid
                THEN Cardinality(ReferralRows') = 1 /\ dbAccounts'.paid
                ELSE ReferralRows' = ReferralRows /\ dbAccounts'.paid
      ]_vars

\* C11 witness: two paid purchases of the regular course have committed in
\* sequence for an account with a referer
C11_Witness ==
    /\ dbAccounts.refererId = RefererId
    /\ Cardinality(PaidRegularPurchases) = 2
    /\ Cardinality(ReferralRows) = 1
    /\ dbAccounts.paid

\* the remaining price of request p from its inputs: the computed price, less
\* the promotion's reduction if one was applied, less the consumed credit
RemainingPrice(p) ==
    LET total == getTotalPriceInCents(klasses[p], [wholeSeries |-> args[p].wholeSeries])
        afterPromo ==
            IF appliedPromo[p] = NoPromo THEN total
            ELSE applyPromo(total, Promotions[appliedPromo[p]],
                            [isBundle |-> Len(klasses[p]) > 1 /\ ~args[p].wholeSeries,
                             wholeSeries |-> args[p].wholeSeries]).result
    IN  afterPromo + usedCredit[p].cents

\* C12: a committed attempt whose remaining price R is above zero has charged
\* the gateway once, exactly R cents (R / 100 major units), and has exactly one
\* PaymentTransaction row, which carries that charge and is linked to exactly
\* the Enrollment rows of the attempt; no other row is linked to them.  With
\* price 10000 and requested credit 3000 the Credit row is -3000 and the charge
\* is 70.00.
C12_ChargeAndTransactionRow ==
    \A p \in Req :
        (pc[p] = "emit" /\ tx[p].committed /\ RemainingPrice(p) > 0) =>
            LET sales == {s \in braintreeSales : s.req = p}
            IN  /\ priceInCents[p] = RemainingPrice(p)
                /\ saleCalls[p] = 1
                /\ Cardinality(sales) = 1
                /\ \A s \in sales :
                       /\ 100 * s.amount.units + s.amount.hundredths = RemainingPrice(p)
                       /\ s.amount.hundredths \in 0..99
                /\ Cardinality(TransactionsOf(p)) = 1
                /\ \A t \in TransactionsOf(p) :
                       /\ t.details \in sales
                       /\ t.enrollments = EnrollmentsOf(p)
                       /\ t.enrollments # {}
                /\ \A t \in dbTransactions \ TransactionsOf(p) :
                       t.enrollments \cap EnrollmentsOf(p) = {}
                /\ (getTotalPriceInCents(klasses[p], [wholeSeries |-> args[p].wholeSeries])
                        = 10000
                    /\ appliedPromo[p] = NoPromo /\ args[p].credit = 3000) =>
                       /\ usedCredit[p].cents = 0 - 3000
                       /\ usedCredit[p] \in dbCredits
                       /\ \A s \in sales : s.amount = [units |-> 70, hundredths |-> 0]

\* C12 witness: price 10000, balance 5000, credit 3000: committed with a Credit
\* row of -3000 and a charge of 70.00
C12_Witness ==
    \E p \in Req :
        /\ pc[p] = "emit"
        /\ tx[p].committed
        /\ balanceInCents[p] = 5000
        /\ args[p].credit = 3000
        /\ appliedPromo[p] = NoPromo
        /\ usedCredit[p].cents = 0 - 3000
        /\ \E s \in braintreeSales : s.req = p /\ s.amount = [units |-> 70, hundredths |-> 0]
        /\ \E t \in dbTransactions : t.id = p /\ t.enrollments = EnrollmentsOf(p)

\* request p sets paid to true in its transaction in this step
SetsPaid(p) == ~staged[p].paid /\ staged'[p].paid

\* request p creates a Referral credit row in its transaction in this step
CreatesReferral(p) ==
    \E c \in staged'[p].credits \ staged[p].credits : c.type = CreditType.Referral

\* C13 (as claimed): an attempt sets paid to true, and creates a Referral credit
\* row, only when the main course is regular, the account's paid flag is false,
\* the remaining price is above zero and the account has a refererId.
C13_PaidAndReferralOnlyOnAllFour ==
    [][\A p \in Req :
        /\ SetsPaid(p) =>
               /\ MainKlass(klasses[p]).course.isRegular
               /\ ~student[p].parent.paid
               /\ priceInCents[p] > 0
               /\ student[p].parent.refererId # NoUser
        /\ CreatesReferral(p) =>
               /\ MainKlass(klasses[p]).course.isRegular
               /\ staged[p].paid
               /\ priceInCents[p] > 0
               /\ student[p].parent.refererId # NoUser
      ]_vars

\* C13 (amended): an attempt sets paid to true only when the main course is
\* regular and the paid flag of the account it loaded is false, whatever the
\* remaining price and the refererId; it creates a Referral credit row, for the
\* referring account, only when it has set paid so and, in addition, the
\* remaining price is above zero and the account has a refererId.
C13_PaidOnRegularReferralOnAllFour ==
    [][\A p \in Req :
        /\ SetsPaid(p) =>
               /\ MainKlass(klasses[p]).course.isRegular
               /\ ~student[p].parent.paid
        /\ CreatesReferral(p) =>
               /\ MainKlass(klasses[p]).course.isRegular
               /\ staged[p].paid
               /\ priceInCents[p] > 0
               /\ student[p].parent.refererId # NoUser
               /\ \A c \in staged'[p].credits \ staged[p].credits :
                      /\ c.userId = student[p].parent.refererId
                      /\ c.cents = ReferralCredits.purchase
               /\ usedCredit'[p] = usedCredit[p]
      ]_vars

\* C13 witness: an attempt has set paid at remaining price 0 and another one has
\* set paid and created the Referral row
C13_Witness ==
    \E p, q \in Req :
        /\ staged[p].paid
        /\ priceInCents[p] = 0
        /\ pc[p] = "bulkCreate"
        /\ \A c \in staged[p].credits : c.type # CreditType.Referral
        /\ tx[q].committed
        /\ \E c \in CreditsOf(q) : c.type = CreditType.Referral

\* the requests whose transaction commits in this step having applied promotion i
CommittingUsersOf(i) ==
    {p \in Req : /\ pc[p] = "commit"
                 /\ ~tx[p].committed
                 /\ tx'[p].committed
                 /\ appliedPromo[p] = i}

\* C14: in every step the committed counts of a promotion grows by exactly 1 if
\* the step commits a transaction that applied the promotion and by 0 in every
\* other step (a rollback, a commit that did not apply it, a refused commit);
\* so counts is always its initial value 0 plus the number of committed uses.
C14_CountsEqualsCommittedUses ==
    [][\A i \in DOMAIN Promotions :
        /\ dbPromotions'[i].counts = dbPromotions[i].counts + Cardinality(CommittingUsersOf(i))
        /\ Cardinality(CommittingUsersOf(i)) <= 1
        /\ dbPromotions'[i].counts = Cardinality(CommittedUsersOf(i)')
      ]_vars

\* C14 witness: two concurrent attempts applied the promotion and both committed,
\* each counted once
C14_Witness ==
    /\ dbPromotions[LimitedPromo].counts = 2
    /\ Cardinality(CommittedUsersOf(LimitedPromo)) = 2

\* C15: the persisted paid flag never goes from true to false; it goes from
\* false to true only in the step that commits a transaction whose main
\* (lowest-level) course is regular; the end of an attempt by rollback and the
\* commit of an attempt whose main course is a trial course leave it unchanged.
C15_PaidMonotonicOnRegularCommit ==
    [][/\ dbAccounts.paid => dbAccounts'.paid
       /\ (~dbAccounts.paid /\ dbAccounts'.paid) =>
              \E p \in Req :
                  /\ pc[p] = "commit"
                  /\ tx'[p].committed
                  /\ klasses[p] # <<>>
                  /\ MainKlass(klasses[p]).course.isRegular
                  /\ \A k \in SeqToSet(klasses[p]) :
                         MainKlass(klasses[p]).course.level <= k.course.level
       /\ \A p \in Req :
              (pc[p] = "catch"
                  \/ (pc[p] = "commit" /\ ~MainKlass(klasses[p]).course.isRegular)) =>
                  (pc'[p] # pc[p] => dbAccounts'.paid = dbAccounts.paid)
      ]_vars

\* C15 witness: paid is true after a regular purchase committed, while an attempt
\* on the trial class committed and one was rolled back without changing it
C15_Witness ==
    \E p, q \in Req :
        /\ dbAccounts.paid
        /\ tx[p].committed
        /\ \E e \in EnrollmentsOf(p) : e.classId = 2
        /\ \A e \in EnrollmentsOf(p) : e.classId = 2
        /\ tx[q].finished = "rollback"

\* the gateway has captured a charge for request p
Charged(p) == \E s \in braintreeSales : s.req = p

StepOrder ==
    <<"idle", "getBalance", "begin", "getPromotion", "increment", "createCredit",
      "updatePaid", "createReferral", "bulkCreate", "sale", "createTransaction",
      "addEnrollments", "commit", "emit", "catch", "done">>

Rank(step) == CHOOSE i \in 1..Len(StepOrder) : StepOrder[i] = step

\* what request p has done so far agrees with the step it is at
EffectsInOrder(p) ==
    /\ (\E i \in DOMAIN Promotions : staged[p].counts[i] > 0) => Rank(pc[p]) > Rank("increment")
    /\ usedCredit[p] # NoCredit => Rank(pc[p]) > Rank("createCredit")
    /\ staged[p].paid => Rank(pc[p]) > Rank("updatePaid")
    /\ staged[p].enrollments # {} => Rank(pc[p]) > Rank("bulkCreate")
    /\ (saleCalls[p] > 0 /\ pc[p] # "done") => Rank(pc[p]) > Rank("sale")
    /\ staged[p].transactions # {} => (Rank(pc[p]) > Rank("createTransaction") /\ Charged(p))
    /\ tx[p].finished = "commit" => Rank(pc[p]) > Rank("commit")
    /\ pc[p] = "sale" => (staged[p].enrollments # {} /\ tx[p].finished = "")
    /\ pc[p] = "commit" =>
           /\ staged[p].enrollments # {}
           /\ priceInCents[p] > 0 =>
                  /\ Charged(p)
                  /\ \E t \in staged[p].transactions : t.enrollments = staged[p].enrollments
    /\ err[p] # NoErr => pc[p] = "catch"

\* C17: every step of an enrollClass attempt takes it forward in the order promotion, credit,
\* paid/referral, Enrollment rows, gateway capture, PaymentTransaction write and
\* link, commit, event; what it has staged, charged and committed agrees with
\* the step it is at; and once a step has failed the attempt makes no further
\* step: it goes to the catch block and ends, changing neither the store nor the
\* external services.
C17_StepsInOrder ==
    [][\A p \in Req :
        handler'[p] = "enrollClass" =>
            /\ pc'[p] # pc[p] => Rank(pc[p]) < Rank(pc'[p])
            /\ EffectsInOrder(p)'
            /\ (err[p] = NoErr /\ err'[p] # NoErr) => pc'[p] = "catch"
            /\ (pc[p] = "catch" /\ pc'[p] # "catch") =>
                   /\ pc'[p] = "done"
                   /\ db' = db
                   /\ ext' = ext
      ]_vars

\* C17 witness: an attempt is at commit after the promotion, the credit, the paid
\* flag, the Referral row, the Enrollment rows, the charge and the linked
\* PaymentTransaction row, in that order
C17_Witness ==
    \E p \in Req :
        /\ pc[p] = "commit"
        /\ appliedPromo[p] = LimitedPromo
        /\ staged[p].counts[LimitedPromo] = 1
        /\ usedCredit[p] \in staged[p].credits
        /\ staged[p].paid
        /\ \E c \in staged[p].credits : c.type = CreditType.Referral
        /\ Charged(p)
        /\ \E t \in staged[p].transactions : t.enrollments = staged[p].enrollments

\* the steps between the opening of the transaction and commit that can fail,
\* and the error each raises
StepsBeforeCommit == {"getPromotion", "sale"} \cup WriteSteps

ErrorOf(step) ==
    IF step = "getPromotion" THEN "BadRequest"
    ELSE IF step = "sale" THEN "PaymentFailure"
    ELSE "StoreError"

\* C18 (as claimed): when a step between the opening of the transaction and commit fails (the
\* promotion is not eligible, a write is refused, the gateway refuses), the
\* attempt goes from that step straight to the catch block with that step's
\* error, the transaction is rolled back there with nothing of the attempt left
\* staged or persisted, and the caller receives exactly that error.
C18_FailureRollsBackAndRethrows ==
    [][\A p \in Req :
        /\ (pc[p] \in StepsBeforeCommit /\ err'[p] # NoErr) =>
               /\ pc'[p] = "catch"
               /\ err'[p] = [kind |-> ErrorOf(pc[p]), step |-> pc[p]]
               /\ tx'[p].finished = ""
        /\ (pc[p] = "catch" /\ err[p].step \in StepsBeforeCommit /\ pc'[p] # "catch") =>
               /\ pc'[p] = "done"
               /\ outcome'[p] = [status |-> "thrown", error |-> err[p], value |-> {}]
               /\ tx'[p].finished = "rollback"
               /\ staged'[p] = NoStaged
               /\ NothingPersistedBy(p)'
               /\ db' = db
      ]_vars

\* C19: a transaction is rolled back only if it has not committed; once it has
\* committed it stays committed, and the failure of the event emission changes
\* nothing in the store: the Enrollment, Credit and PaymentTransaction rows of
\* the attempt, the promotion's counts and the paid flag stay as committed.
C19_NoRollbackAfterCommit ==
    [][\A p \in Req :
        /\ tx'[p].finished = "rollback" => (~tx[p].committed /\ tx[p].finished # "commit")
        /\ tx[p].committed =>
               /\ tx'[p].committed
               /\ tx'[p].finished = "commit"
               /\ EnrollmentsOf(p) \subseteq EnrollmentsOf(p)'
               /\ EnrollmentsOf(p)' # {}
               /\ CreditsOf(p) \subseteq CreditsOf(p)'
               /\ TransactionsOf(p) \subseteq TransactionsOf(p)'
               /\ \A i \in DOMAIN Promotions : dbPromotions'[i].counts >= dbPromotions[i].counts
               /\ dbAccounts.paid => dbAccounts'.paid
        /\ (pc[p] \in {"emit", "catch"} /\ tx[p].committed /\ pc'[p] # pc[p]) =>
               /\ db' = db
               /\ tx' = tx
      ]_vars

\* C19 witness: the event emission failed after the commit; the caller got an
\* error and every write of the attempt is still in the store
C19_Witness ==
    \E p \in Req :
        /\ pc[p] = "done"
        /\ outcome[p].status = "thrown"
        /\ tx[p].committed
        /\ EnrollmentsOf(p) # {}
        /\ \E c \in CreditsOf(p) : c.type = CreditType.Purchase
        /\ \E c \in CreditsOf(p) : c.type = CreditType.Referral
        /\ TransactionsOf(p) # {}
        /\ dbPromotions[LimitedPromo].counts = 1
        /\ dbAccounts.paid
        /\ \A e \in eventBus : e.req # p

\* C20 (as claimed): a transaction is ended at most once, by commit() or by rollback(): once
\* finished it never changes its end; it ends only in the commit step or in the
\* catch block; and whenever the handler has returned or thrown, the transaction
\* it opened is finished, with nothing left staged in it.
C20_TransactionClosedExactlyOnce ==
    [][\A p \in Req :
        /\ tx[p].finished # "" => tx'[p].finished = tx[p].finished
        /\ tx[p].started => tx'[p].started
        /\ (tx[p].finished = "" /\ tx'[p].finished # "") =>
               /\ tx[p].started
               /\ \/ pc[p] = "commit" /\ tx'[p].finished = "commit"
                  \/ pc[p] = "catch" /\ tx'[p].finished = "rollback"
        /\ (pc'[p] = "done" /\ tx'[p].started) =>
               /\ tx'[p].finished \in {"commit", "rollback"}
               /\ staged'[p] = NoStaged
        /\ tx'[p].committed => tx'[p].finished = "commit"
      ]_vars

====
